---- MODULE Spec2Model ----
(***************************************************************************)
(* SolSpotBot: the polling loop of main.py (main_loop), its startup sell   *)
(* (startup_sell_if_needed), the persisted snapshot (load_state,           *)
(* save_state), the decision functions of strategy.py (should_buy,         *)
(* should_sell) and the order helpers of exchange.py.                      *)
(*                                                                         *)
(* Units.  Prices are integers in sixtieths of a price tick, so that the      *)
(* quantity-weighted average of the fills of one order is an integer.      *)
(* SOL amounts are integers in half steps of the quantity step 0.001, so   *)
(* that a balance below one step exists.  USDC amounts are cents.  Time    *)
(* is the number of minutes since last_activity_ts, saturated at           *)
(* WATCHDOG_MINUTES (the watchdog only compares it with that threshold).   *)
(* Python floats are modelled as exact rationals: every comparison of a    *)
(* quotient is cross-multiplied.                                           *)
(***************************************************************************)
EXTENDS Integers, Sequences, FiniteSets, TLC

VARIABLES
    disk,                 \* contents of state.json
    pc,                   \* position of the process in main_loop
    state,                \* the state dict of main_loop
    holding,              \* main_loop local
    buy_price,            \* main_loop local
    peak_price,           \* main_loop local
    last_candle_time,     \* main_loop local, 0 stands for None
    inactive,             \* minutes since last_activity_ts (saturated)
    watchdog_alert_sent,  \* main_loop local
    current_price,        \* main_loop local, 0 while not in use
    order,                \* main_loop local: None or the order returned
    signal,               \* what should_buy / should_sell told this iteration
    balance,              \* usdc_balance / sol_balance read by this iteration
    sol,                  \* free SOL of the exchange account
    usdc,                 \* free USDC of the exchange account
    sent,                 \* side of the order the last step submitted
    telegram,             \* notification the last step attempted
    saved,                \* the snapshots the last step passed to save_state
    result,               \* the last call of a strategy function on its own
    evaluated             \* latest candle of the window should_buy last got

vars == <<disk, pc, state, holding, buy_price, peak_price, last_candle_time,
          inactive, watchdog_alert_sent, current_price, order, signal, balance,
          sol, usdc, sent, telegram, saved, result, evaluated>>

----------------------------------------------------------------------------
(* Bounds of the model *)

MaxFills == 2          \* fills reported for one order
MaxCandleTime == 2     \* open times of the latest candle: 1..MaxCandleTime
MaxSol == 2            \* largest SOL balance, in half steps

(* Program constants *)

WATCHDOG_MINUTES == 15
MAX_LOSS_PER_MILLE == 5      \* MAX_LOSS_PERCENT = 0.005
TRAILING_PER_MILLE == 2      \* drawdown_from_peak >= 0.002
TRAILING_SHARE_PERCENT == 20 \* TRAILING_SHARE = 0.2, read by no function
ENTRY_TOTAL_MOVE == 7000     \* 0.7 (percent), read by no function
ENTRY_MIN_SECOND == 3500     \* 0.35 (percent), read by no function
step == 2                    \* step = 0.001 SOL, in half steps
max_retries == 3

\* the order local while it holds no order
None == [returned |-> FALSE, fills |-> <<>>]

\* an order the exchange returned
Order(fills) == [returned |-> TRUE, fills |-> fills]

\* a balance local before it is read
Unread == -1

Min(a, b) == IF a <= b THEN a ELSE b

Max(a, b) == IF a >= b THEN a ELSE b

----------------------------------------------------------------------------
(* strategy.py *)

\* n/d > a/b for d # 0 and b > 0, as exact rationals
FracGT(n, d, a, b) == IF d > 0 THEN n * b > a * d ELSE n * b < a * d

\* (num / den) * 100.0 in units of a ten-thousandth of a percent
Percent(num, den) == (num * 1000000) \div den

\* calculate_candle_changes: (r1, r2) over candles[0], candles[1], candles[2];
\* raises ValueError below three candles, ZeroDivisionError on a zero close
calculate_candle_changes(candles) ==
    IF Len(candles) < 3 THEN [raises |-> "ValueError", r1 |-> 0, r2 |-> 0]
    ELSE LET prev_close == candles[1].c
             r1_close == candles[2].c
             r2_close == candles[3].c
         IN  IF prev_close = 0 \/ r1_close = 0
             THEN [raises |-> "ZeroDivisionError", r1 |-> 0, r2 |-> 0]
             ELSE [raises |-> "",
                   r1 |-> Percent(r1_close - prev_close, prev_close),
                   r2 |-> Percent(r2_close - r1_close, r1_close)]

\* calculate_four_candle_analysis: changes and is_red of candles[0..3]
calculate_four_candle_analysis(candles) ==
    IF Len(candles) < 4
    THEN [raises |-> "ValueError", changes |-> <<>>, is_red |-> <<>>]
    ELSE IF \E i \in 1..4 : candles[i].o = 0
    THEN [raises |-> "ZeroDivisionError", changes |-> <<>>, is_red |-> <<>>]
    ELSE [raises |-> "",
          changes |-> [i \in 1..4 |->
                          Percent(candles[i].c - candles[i].o, candles[i].o)],
          is_red |-> [i \in 1..4 |-> candles[i].c < candles[i].o]]

\* the last n elements of a sequence (candles[-n:])
Last(candles, n) == SubSeq(candles, Len(candles) - n + 1, Len(candles))

\* FILTER A: no zero open and no volatility above 0.6% in the last 3 candles
VolatilityOk(candles) ==
    \A i \in (Len(candles) - 2)..Len(candles) :
        /\ candles[i].o # 0
        /\ ~FracGT(candles[i].h - candles[i].l, candles[i].o, 6, 1000)

RECURSIVE SumVolume(_)
SumVolume(cs) == IF cs = <<>> THEN 0 ELSE Head(cs).v + SumVolume(Tail(cs))

\* FILTER B: last volume not below the average of the last 20
VolumeOk(candles) ==
    Len(candles) >= 20 =>
        ~(candles[Len(candles)].v * 20 < SumVolume(Last(candles, 20)))

RECURSIVE MaxHigh(_)
MaxHigh(cs) ==
    IF Len(cs) = 1 THEN Head(cs).h ELSE Max(Head(cs).h, MaxHigh(Tail(cs)))

\* FILTER C: last close more than 0.25% below the highest high of the last 20
DistanceOk(candles) ==
    Len(candles) >= 20 =>
        LET last_close == candles[Len(candles)].c
        IN  /\ last_close # 0
            /\ FracGT(MaxHigh(Last(candles, 20)) - last_close, last_close, 25, 10000)

\* FILTER D: synthetic M5 candle of the last 5 candles closes above its open
TrendOk(candles) ==
    Len(candles) >= 5 =>
        candles[Len(candles)].c > candles[Len(candles) - 4].o

\* two-candle momentum condition: r1 >= 0.20 and r2 >= 0.30
TwoCandle(candles) ==
    LET r == calculate_candle_changes(candles)
    IN  r.r1 >= 2000 /\ r.r2 >= 3000

\* four-candle momentum condition: total_gain >= 0.8 and last candle not red
FourCandle(candles) ==
    LET a == calculate_four_candle_analysis(candles)
        total_gain == a.changes[1] + a.changes[2] + a.changes[3] + a.changes[4]
    IN  total_gain >= 8000 /\ ~a.is_red[4]

\* should_buy whose except branch returns True
should_buy_ErrorsBuy(candles) ==
    IF Len(candles) < 3 THEN FALSE
    ELSE IF \E i \in (Len(candles) - 2)..Len(candles) : candles[i].o = 0
         THEN TRUE
    ELSE IF ~VolatilityOk(candles) THEN FALSE
    ELSE IF ~VolumeOk(candles) THEN FALSE
    ELSE IF Len(candles) >= 20 /\ candles[Len(candles)].c = 0 THEN TRUE
    ELSE IF ~DistanceOk(candles) THEN FALSE
    ELSE IF ~TrendOk(candles) THEN FALSE
    ELSE IF calculate_candle_changes(candles).raises # "" THEN TRUE
    ELSE IF TwoCandle(candles) THEN TRUE
    ELSE IF Len(candles) < 4 THEN FALSE
    ELSE IF calculate_four_candle_analysis(candles).raises # "" THEN TRUE
    ELSE FourCandle(candles)

\* should_buy: every exception inside is caught and gives False
should_buy(candles) ==
    IF Len(candles) < 3 THEN FALSE
    ELSE IF ~VolatilityOk(candles) THEN FALSE
    ELSE IF ~VolumeOk(candles) THEN FALSE
    ELSE IF ~DistanceOk(candles) THEN FALSE
    ELSE IF ~TrendOk(candles) THEN FALSE
    ELSE IF calculate_candle_changes(candles).raises # "" THEN FALSE
    ELSE IF TwoCandle(candles) THEN TRUE
    ELSE IF Len(candles) < 4 THEN FALSE
    ELSE IF calculate_four_candle_analysis(candles).raises # "" THEN FALSE
    ELSE FourCandle(candles)

\* should_sell with the trailing rule tested before the stop-loss
should_sell_TrailingFirst(current, buy, peak) ==
    IF buy <= 0 THEN <<FALSE, "">>
    ELSE IF peak > buy /\ (peak - current) * 1000 >= TRAILING_PER_MILLE * peak
         THEN <<TRUE, "TRAILING_STOP">>
    ELSE IF (current - buy) * 1000 <= -(MAX_LOSS_PER_MILLE * buy)
         THEN <<TRUE, "STOP_LOSS">>
    ELSE <<FALSE, "">>

\* should_sell without the test of the entry price
should_sell_NoEntryCheck(current, buy, peak) ==
    IF (current - buy) * 1000 <= -(MAX_LOSS_PER_MILLE * buy)
    THEN <<TRUE, "STOP_LOSS">>
    ELSE IF peak > buy /\ (peak - current) * 1000 >= TRAILING_PER_MILLE * peak
         THEN <<TRUE, "TRAILING_STOP">>
    ELSE <<FALSE, "">>

\* should_sell: (flag, reason)
should_sell(current, buy, peak) ==
    IF buy <= 0 THEN <<FALSE, "">>
    ELSE IF (current - buy) * 1000 <= -(MAX_LOSS_PER_MILLE * buy)
         THEN <<TRUE, "STOP_LOSS">>
    ELSE IF peak > buy /\ (peak - current) * 1000 >= TRAILING_PER_MILLE * peak
         THEN <<TRUE, "TRAILING_STOP">>
    ELSE <<FALSE, "">>

\* no strategy function has been called on its own yet
NoCall == [fn |-> "none", args |-> <<>>, value |-> <<>>]

\* prices should_sell is called with on its own: a negative one, zero, levels
\* on both sides of an entry of 60000 (59700 is exactly 0.5% below it, 59701
\* just above), peaks below, at and above the entry (60060 is 0.1% above),
\* and 64794, 64806, 66000, which are 107.99, 108.01 and 110 for an entry
\* of 100
SellPrices ==
    {-1, 0, 59400, 59700, 59701, 60000, 60060, 60600, 61000,
     64794, 64806, 66000}

----------------------------------------------------------------------------
(* exchange.py *)

\* the q up to 200 for which the double nearest to q / 1000 (or to
\* 2 * q / 1000), divided by the double 0.001 (by 0.002), is below q
ShortQuotients ==
    {43, 51, 59, 71, 86, 87, 102, 103, 118, 119, 141, 142, 143,
     172, 173, 174, 175}

\* math.floor(qty / d) in double arithmetic, for qty a decimal of at most
\* four places as the exchange reports it or round(x, 3) returns it
FloatFloor(qty, d) ==
    IF qty % d = 0 /\ (qty \div d) \in ShortQuotients
    THEN (qty \div d) - 1
    ELSE qty \div d

\* sanitize_quantity: round DOWN to the hardcoded step, then round(x, 3)
sanitize_quantity(qty) ==
    IF qty <= 0 THEN 0 ELSE FloatFloor(qty, step) * step

\* a retry loop that goes on to the next attempt after any fault
RECURSIVE Retry_AnyFault(_, _)
Retry_AnyFault(attempts, i) ==
    IF i > max_retries THEN "raise"
    ELSE IF attempts[i] = "ok" THEN "ok"
    ELSE Retry_AnyFault(attempts, i + 1)

\* number of requests one retry loop sends: it goes on to the next attempt
\* only after a rate limit (continue), and range(max_retries) ends it
RECURSIVE AttemptsMade(_, _)
AttemptsMade(attempts, i) ==
    IF i > max_retries THEN max_retries
    ELSE IF attempts[i] = "rate_limit" THEN AttemptsMade(attempts, i + 1)
    ELSE i

\* outcome of one retry loop (for attempt in range(max_retries)): the first
\* attempt that is not rate limited decides; three rate limits raise
RECURSIVE Retry(_, _)
Retry(attempts, i) ==
    IF i > max_retries THEN "raise"
    ELSE IF attempts[i] = "ok" THEN "ok"
    ELSE IF attempts[i] = "rate_limit" THEN Retry(attempts, i + 1)
    ELSE "raise"

AttemptResults == {"ok", "rate_limit", "error"}

Attempts == [1..max_retries -> AttemptResults]

CallResults == {"ok", "raise"}

\* LOT_SIZE stepSize of the exchange info, in half steps; 0: no LOT_SIZE filter
LotSteps == {0, 2, 4}

\* digits of the NOTIONAL filter's minNotional
QuotePrecisions == {0, 1, 2}

\* what the exchange answers to the calls of one market_sell_all_sol
SellCalls == [balance : CallResults, info : CallResults, step_size : LotSteps,
              price : CallResults, attempts : Attempts]

\* what the exchange answers to the calls of one market_buy_all_usdc
BuyCalls == [balance : CallResults, info : CallResults,
             quote_precision : QuotePrecisions,
             price : CallResults, attempts : Attempts]

Raised(submitted) == [result |-> "raise", submitted |-> submitted, amount |-> 0]

ReturnedNone == [result |-> "None", submitted |-> FALSE, amount |-> 0]

\* get_klines: the outcomes of its retry loop
get_klines == {Retry(a, 1) : a \in Attempts}

\* market_sell: sanitize, then create_order with retry
market_sell(quantity, attempts) ==
    LET q == sanitize_quantity(quantity)
    IN  IF q <= 0 THEN Raised(FALSE)
        ELSE IF Retry(attempts, 1) = "ok"
             THEN [result |-> "order", submitted |-> TRUE, amount |-> q]
             ELSE Raised(TRUE)

\* market_sell_all_sol on an account holding sol_balance
market_sell_all_sol(call, sol_balance) ==
    IF call.balance = "raise" THEN Raised(FALSE)
    ELSE IF sol_balance <= 0 THEN ReturnedNone
    ELSE IF call.info = "raise" THEN Raised(FALSE)
    ELSE LET raw_qty == IF call.step_size # 0
                        THEN FloatFloor(sol_balance, call.step_size)
                                 * call.step_size
                        ELSE sol_balance
             \* the product floor(...) * step_size is not rounded to three
             \* places: as a double it is never below its multiple of step
             quantity == IF call.step_size # 0
                         THEN (raw_qty \div step) * step
                         ELSE sanitize_quantity(raw_qty)
         IN  IF quantity <= 0 THEN ReturnedNone
             ELSE IF call.price = "raise" THEN Raised(FALSE)
             ELSE market_sell(quantity, call.attempts)

Pow10(k) == IF k = 0 THEN 1 ELSE IF k = 1 THEN 10 ELSE 100

\* round(n / d) of Python 3: to the nearest, a tie to the even neighbour
RoundHalfEven(n, d) ==
    LET q == n \div d
        r == n % d
    IN  IF 2 * r < d THEN q
        ELSE IF 2 * r > d THEN q + 1
        ELSE IF q % 2 = 0 THEN q ELSE q + 1

\* usdc_to_use: round(usdc_balance * 0.9995, quote_precision), in cents
usdc_to_use(usdc_balance, quote_precision) ==
    LET unit == Pow10(2 - quote_precision)
    IN  RoundHalfEven(usdc_balance * 9995, 10000 * unit) * unit

\* market_buy_all_usdc on an account holding usdc_balance; the exchange
\* accepts no order for more than the free balance
market_buy_all_usdc(call, usdc_balance) ==
    IF call.balance = "raise" THEN Raised(FALSE)
    ELSE IF usdc_balance <= 0 THEN ReturnedNone
    ELSE IF call.info = "raise" THEN Raised(FALSE)
    ELSE LET amount == usdc_to_use(usdc_balance, call.quote_precision)
         IN  IF amount <= 0 THEN ReturnedNone
             ELSE IF call.price = "raise" THEN Raised(FALSE)
             ELSE IF Retry(call.attempts, 1) = "ok" /\ amount <= usdc_balance
                  THEN [result |-> "order", submitted |-> TRUE, amount |-> amount]
                  ELSE Raised(TRUE)

\* prices the ticker reports
Prices == {59400, 60000, 60600}

\* prices the fills of a buy order report
FillPrices == {59400, 60600}

\* quantity of one fill, in half steps: the exchange reports executed fills
FillQtys == {1, 2}

\* order['fills'] of an accepted order
Fills == UNION {[1..n -> [price : FillPrices, qty : FillQtys]] : n \in 0..MaxFills}

\* the fills of a sell order reach only the log line and the notification
\* text: one representative
SellFills == {<<>>}

RECURSIVE TotalQty(_)
TotalQty(fills) ==
    IF fills = <<>> THEN 0 ELSE Head(fills).qty + TotalQty(Tail(fills))

RECURSIVE TotalCost(_)
TotalCost(fills) ==
    IF fills = <<>> THEN 0
    ELSE Head(fills).price * Head(fills).qty + TotalCost(Tail(fills))

\* the execution price main_loop derives from an order
ExecutionPrice_FirstFill(fills, fallback) ==
    IF fills = <<>> THEN fallback ELSE fills[1].price

ExecutionPrice(fills, fallback) ==
    IF fills # <<>>
    THEN IF TotalQty(fills) > 0
         THEN TotalCost(fills) \div TotalQty(fills)
         ELSE fallback
    ELSE fallback

----------------------------------------------------------------------------
(* the market data the loop receives *)

\* closed: the close time of the kline has passed
Candle(t, o, h, l, c, v, closed) ==
    [t |-> t, o |-> o, h |-> h, l |-> l, c |-> c, v |-> v, closed |-> closed]

\* a window of n candles as the exchange returns it, the latest opening at
\* time t and still forming, candle i with open oc[i][1] and close (last
\* price, for the forming one) oc[i][2], high hi[i] at least both, volume 10
Window(n, t, oc, hi) ==
    [i \in 1..n |->
        Candle(t - (n - i), oc[i][1], Max(hi[i], Max(oc[i][1], oc[i][2])),
               Min(oc[i][1], oc[i][2]), oc[i][2], 10, i < n)]

\* what the latest candle of a window is
LatestCandle(klines) ==
    IF klines[Len(klines)].closed THEN "closed" ELSE "forming"

Quiet == <<1000, 1000>>

\* closes 1000, 1002, 1006 on candles[0..2]: r1 = 0.2%, r2 = 0.399%
Rising(i) ==
    IF i = 1 THEN <<1000, 1000>>
    ELSE IF i = 2 THEN <<1000, 1002>>
    ELSE IF i = 3 THEN <<1002, 1006>>
    ELSE <<1006, 1006>>

\* the windows get_klines(limit=20) returns with the latest open time t
LoopWindows(t) ==
    { Window(2, t, [i \in 1..2 |-> Quiet], [i \in 1..2 |-> 0]),
      Window(3, t, [i \in 1..3 |-> Quiet], [i \in 1..3 |-> 0]),
      Window(3, t, [i \in 1..3 |-> Rising(i)], [i \in 1..3 |-> 0]),
      Window(3, t, [i \in 1..3 |-> IF i = 2 THEN <<0, 1000>> ELSE Quiet],
             [i \in 1..3 |-> 0]),
      Window(20, t, [i \in 1..20 |-> Quiet], [i \in 1..20 |-> 0]),
      Window(20, t, [i \in 1..20 |-> IF i = 16 THEN <<1005, 1006>> ELSE Rising(i)],
             [i \in 1..20 |-> IF i = 4 THEN 1012 ELSE 0]) }

CandleTimes == 1..MaxCandleTime

\* open and close of the candles should_buy is called with on its own: flat,
\* +0.2%, +0.4%, -0.1%, a zero open and a zero close
BuyShapes ==
    {<<10000, 10000>>, <<10000, 10020>>, <<10000, 10040>>, <<10000, 9990>>,
     <<0, 10000>>, <<10000, 0>>}

\* every window of up to four such candles, without wicks
ShapeWindows ==
    UNION {{Window(n, n, oc, [i \in 1..n |-> 0]) : oc \in [1..n -> BuyShapes]} :
              n \in 0..4}

\* closes 10000, 10020, 10060, then two red candles down to 10040
RiseThenRed(i) ==
    IF i = 1 THEN <<10000, 10000>>
    ELSE IF i = 2 THEN <<10000, 10020>>
    ELSE IF i = 3 THEN <<10020, 10060>>
    ELSE IF i = 4 THEN <<10060, 10050>>
    ELSE <<10050, 10040>>

\* twenty candles: the same rise on candles[0..2], a fall back to 10000 with
\* a wick to 10100, flat candles, then +0.6% and the same two red candles
OldRise(i) ==
    IF i <= 3 THEN RiseThenRed(i)
    ELSE IF i = 4 THEN <<10060, 10000>>
    ELSE IF i <= 17 THEN <<10000, 10000>>
    ELSE IF i = 18 THEN <<10000, 10060>>
    ELSE RiseThenRed(i - 15)

\* two red candles, then +0.5% twice
TwoRed(i) ==
    IF i = 1 THEN <<10000, 9999>>
    ELSE IF i = 2 THEN <<9999, 9998>>
    ELSE IF i = 3 THEN <<9998, 10048>>
    ELSE <<10048, 10098>>

\* flat candles, then +0.4% twice on the two most recent candles
LateRise(n, i) ==
    IF i = n - 1 THEN <<10000, 10040>>
    ELSE IF i = n THEN <<10040, 10080>>
    ELSE <<10000, 10000>>

\* windows of consecutive candles (each opens at the close before it)
MarketWindows ==
    { Window(5, 5, [i \in 1..5 |-> RiseThenRed(i)], [i \in 1..5 |-> 0]),
      Window(20, 20, [i \in 1..20 |-> OldRise(i)],
             [i \in 1..20 |-> IF i = 4 THEN 10100 ELSE 0]),
      Window(4, 4, [i \in 1..4 |-> TwoRed(i)], [i \in 1..4 |-> 0]),
      Window(3, 3, [i \in 1..3 |-> LateRise(3, i)], [i \in 1..3 |-> 0]),
      Window(3, 3, [i \in 1..3 |-> LateRise(3, i)],
             [i \in 1..3 |-> IF i = 3 THEN 10150 ELSE 0]),
      Window(5, 5, [i \in 1..5 |-> LateRise(5, i)], [i \in 1..5 |-> 0]) }

\* the windows should_buy is called with on its own
BuyWindows == ShapeWindows \cup MarketWindows

----------------------------------------------------------------------------
(* main.py: the persisted snapshot *)

\* a snapshot as state.get reads it: a missing key is its default
EmptySnapshot ==
    [FIRST_RUN_SELL_DONE |-> FALSE, holding |-> FALSE,
     buy_price |-> 0, peak_price |-> 0]

\* load_state: the file's dict, or {} when reading it fails
load_state == {disk, EmptySnapshot}

\* save_state(s): state.json then holds s; the old contents when open fails;
\* nothing readable when the write fails after the truncation
save_state(s) ==
    /\ disk' \in {s, disk, EmptySnapshot}
    /\ saved' = {s}

\* a step that does not call save_state
NoSave ==
    /\ disk' = disk
    /\ saved' = {}

UsdcLevels == {0, 4, 200}

Delays == {0, 8}

\* minutes an iteration takes from its fetch to its watchdog check: none to
\* speak of, or (retry sleeps, timeouts, a suspended process) the threshold
IterationTimes == {0, WATCHDOG_MINUTES}

Elapsed(from, d) == Min(from + d, WATCHDOG_MINUTES)

\* startup_sell_if_needed: "if state.get("FIRST_RUN_SELL_DONE", False)"
StartupDone_Never(s) == FALSE

StartupDone(s) == s.FIRST_RUN_SELL_DONE

\* startup_sell_if_needed: "if sol_balance > 0"
StartupFound_Never(sol_balance) == FALSE

StartupFound(sol_balance) == sol_balance > 0

\* main_loop: "if not holding"
NotHolding_Ignored == TRUE

NotHolding == ~holding

\* main_loop: "if last_candle_time is None or current_candle_time !=
\* last_candle_time" (0 stands for None)
NewCandle_Always(last, current) == TRUE

NewCandle(last, current) == last = 0 \/ current # last

\* main_loop: "if current_price > peak_price"
UpdatesPeak_Follows(price, peak) == price # peak

\* a loop that never raises the peak
UpdatesPeak_Never(price, peak) == FALSE

UpdatesPeak(price, peak) == price > peak

\* main_loop, sell signal: "if sol_balance > 0"
SolToSell_Never(sol_balance) == FALSE

SolToSell_NonNegative(sol_balance) == sol_balance >= 0

SolToSell(sol_balance) == sol_balance > 0

\* main_loop: "watchdog_alert_sent = False" after a successful fetch
LatchAfterFetch_Kept == watchdog_alert_sent

LatchAfterFetch == FALSE

\* what telegram shows after the notification of a buy, a sell or a startup
\* sell: send_telegram_message returned True, returned False, or building the
\* message raised inside the try around it
Notified(kind) == {kind, kind \o "_false", kind \o "_raised"}

\* the step after an order that returned: the state update before the
\* notification
AfterOrder_NotifyFirst(side) == side \o "_notify"

AfterOrder(side) == side \o "_commit"

\* where control resumes after the except handler of the loop
AfterFault_Exit == "stopped"

AfterFault == "loop"

LoopPcs == {"loop", "buy_balance", "buy_price", "buy_order", "buy_commit",
            "buy_notify", "exit_check", "sell_balance", "sell_order",
            "sell_commit", "sell_notify", "watchdog"}

Init ==
    /\ disk = EmptySnapshot
    /\ pc = "boot"
    /\ state = EmptySnapshot
    /\ holding = FALSE
    /\ buy_price = 0
    /\ peak_price = 0
    /\ last_candle_time = 0
    /\ evaluated = "none"
    /\ inactive = 0
    /\ watchdog_alert_sent = FALSE
    /\ current_price = 0
    /\ order = None
    /\ signal = "none"
    /\ balance = Unread
    /\ sol \in 0..MaxSol
    /\ usdc \in UsdcLevels
    /\ sent = "none"
    /\ telegram = "none"
    /\ saved = {}
    /\ result = NoCall

\* main_loop up to the startup notification: Exchange(), load_state()
Start ==
    /\ pc = "boot"
    /\ \/ /\ pc' = "stopped"
          /\ UNCHANGED <<state, telegram>>
       \/ /\ state' \in load_state
          /\ telegram' = "start"
          /\ pc' = "startup"
    /\ sent' = "none"
    /\ NoSave
    /\ UNCHANGED <<holding, buy_price, peak_price, last_candle_time, evaluated, inactive,
                   watchdog_alert_sent, current_price, order, signal, balance,
                   sol, usdc>>
    /\ UNCHANGED result

\* startup_sell_if_needed up to the balance test
StartupCheck ==
    /\ pc = "startup"
    /\ \/ /\ StartupDone(state)
          /\ pc' = "init"
          /\ NoSave
          /\ UNCHANGED <<state, balance>>
       \/ /\ ~StartupDone(state)
          /\ \/ /\ pc' = "init"          \* get_balance raises
                /\ NoSave
                /\ UNCHANGED <<state, balance>>
             \/ /\ StartupFound(sol)
                /\ balance' = sol
                /\ pc' = "startup_sell"
                /\ NoSave
                /\ UNCHANGED state
             \/ /\ ~StartupFound(sol)
                /\ balance' = sol
                /\ state' = [state EXCEPT !.FIRST_RUN_SELL_DONE = TRUE]
                /\ save_state(state')
                /\ pc' = "init"
    /\ sent' = "none"
    /\ telegram' = "none"
    /\ UNCHANGED <<holding, buy_price, peak_price, last_candle_time, evaluated, inactive,
                   watchdog_alert_sent, current_price, order, signal, sol, usdc>>
    /\ UNCHANGED result

StartupSell_FlagAlways ==
    /\ pc = "startup_sell"
    /\ \E out \in {market_sell_all_sol(c, sol) : c \in SellCalls} :
          /\ sent' = IF out.submitted THEN "SELL" ELSE "none"
          /\ \/ /\ out.result = "order"
                /\ \E fills \in SellFills : order' = Order(fills)
                /\ sol' = sol - out.amount
                /\ usdc' \in {u \in UsdcLevels : u >= usdc}
                /\ pc' = "startup_notify"
             \/ /\ out.result # "order"
                /\ pc' = "init"
                /\ UNCHANGED <<sol, usdc, order>>
          /\ state' = [state EXCEPT !.FIRST_RUN_SELL_DONE = TRUE]
          /\ save_state(state')
    /\ telegram' = "none"
    /\ UNCHANGED <<holding, buy_price, peak_price, last_candle_time, evaluated, inactive,
                   watchdog_alert_sent, current_price, signal, balance>>
    /\ UNCHANGED result

\* startup_sell_if_needed: the sell of the balance found
StartupSell ==
    /\ pc = "startup_sell"
    /\ \E out \in {market_sell_all_sol(c, sol) : c \in SellCalls} :
          /\ sent' = IF out.submitted THEN "SELL" ELSE "none"
          /\ \/ /\ out.result = "order"
                /\ \E fills \in SellFills : order' = Order(fills)
                /\ sol' = sol - out.amount
                /\ usdc' \in {u \in UsdcLevels : u >= usdc}
                /\ state' = [state EXCEPT !.FIRST_RUN_SELL_DONE = TRUE]
                /\ save_state(state')
                /\ pc' = "startup_notify"
             \/ /\ out.result # "order"
                /\ NoSave
                /\ pc' = "init"
                /\ UNCHANGED <<sol, usdc, state, order>>
    /\ telegram' = "none"
    /\ UNCHANGED <<holding, buy_price, peak_price, last_candle_time, evaluated, inactive,
                   watchdog_alert_sent, current_price, signal, balance>>
    /\ UNCHANGED result

InitTradingState_StartsFlat ==
    /\ pc = "init"
    /\ holding' = FALSE
    /\ buy_price' = 0
    /\ peak_price' = 0
    /\ last_candle_time' = 0
    /\ evaluated' = "none"
    /\ inactive' = 0
    /\ watchdog_alert_sent' = FALSE
    /\ order' = None
    /\ balance' = Unread
    /\ pc' = "loop"
    /\ sent' = "none"
    /\ telegram' = "none"
    /\ NoSave
    /\ UNCHANGED <<state, current_price, signal, sol, usdc>>
    /\ UNCHANGED result

\* main_loop: "Initialize trading state" and the watchdog variables
InitTradingState ==
    /\ pc = "init"
    /\ holding' = state.holding
    /\ buy_price' = state.buy_price
    /\ peak_price' = state.peak_price
    /\ last_candle_time' = 0
    /\ evaluated' = "none"
    /\ inactive' = 0
    /\ watchdog_alert_sent' = FALSE
    /\ order' = None
    /\ balance' = Unread
    /\ pc' = "loop"
    /\ sent' = "none"
    /\ telegram' = "none"
    /\ NoSave
    /\ UNCHANGED <<state, current_price, signal, sol, usdc>>
    /\ UNCHANGED result

\* the locals of an iteration leave scope when it ends; current_price is
\* kept while a position is open (the price last observed for it)
EndIteration ==
    /\ order' = None
    /\ signal' = "none"
    /\ balance' = Unread
    /\ current_price' = IF holding THEN current_price ELSE 0

ErrorHandler_Resets(side) ==
    /\ pc' = AfterFault
    /\ telegram' = "error"
    /\ sent' = side
    /\ EndIteration
    /\ \E d \in Delays : inactive' = Elapsed(inactive, d)
    /\ holding' = FALSE
    /\ buy_price' = 0
    /\ peak_price' = 0
    /\ state' = [state EXCEPT !.holding = FALSE, !.buy_price = 0,
                              !.peak_price = 0]
    /\ save_state(state')
    /\ UNCHANGED <<last_candle_time, evaluated, watchdog_alert_sent, sol, usdc>>

\* except Exception at the loop boundary: notify, sleep, next iteration
ErrorHandler(side) ==
    /\ pc' = AfterFault
    /\ telegram' = "error"
    /\ sent' = side
    /\ EndIteration
    /\ \E d \in Delays : inactive' = Elapsed(inactive, d)
    /\ NoSave
    /\ UNCHANGED <<state, holding, buy_price, peak_price, last_candle_time, evaluated,
                   watchdog_alert_sent, sol, usdc>>

\* the notification that follows a state update and its save; nothing but
\* the message depends on how it ends
Notify(kind, next) ==
    /\ telegram' \in Notified(kind)
    /\ pc' = next
    /\ sent' = "none"
    /\ NoSave
    /\ UNCHANGED <<state, holding, buy_price, peak_price, last_candle_time, evaluated,
                   inactive, watchdog_alert_sent, current_price, order,
                   signal, balance, sol, usdc>>

\* startup_sell_if_needed: the notification of the startup sell
StartupNotify ==
    /\ pc = "startup_notify" /\ Notify("startup_sell", "init")
    /\ UNCHANGED result

\* main_loop: the notification of the buy
BuyNotify ==
    /\ pc = "buy_notify" /\ Notify("buy", "watchdog")
    /\ UNCHANGED result

\* main_loop: the notification of the sell
SellNotify ==
    /\ pc = "sell_notify" /\ Notify("sell", "watchdog")
    /\ UNCHANGED result

\* not holding: get_klines, the candle debounce and should_buy
FlatFetch ==
    /\ pc = "loop"
    /\ NotHolding
    /\ \/ /\ "raise" \in get_klines
          /\ ErrorHandler("none")
       \/ /\ "ok" \in get_klines
          /\ watchdog_alert_sent' = LatchAfterFetch
          /\ sent' = "none"
          /\ telegram' = "none"
          /\ NoSave
          /\ UNCHANGED <<state, holding, buy_price, peak_price, current_price,
                         order, balance, sol, usdc>>
          /\ \E t \in CandleTimes : \E klines \in LoopWindows(t) :
                IF Len(klines) < 3
                THEN /\ \E d \in Delays : inactive' = Elapsed(0, d)
                     /\ pc' = "loop"
                     /\ UNCHANGED <<last_candle_time, evaluated, signal>>
                ELSE /\ inactive' = 0
                     /\ LET current_candle_time == klines[Len(klines)].t
                        IN  IF NewCandle(last_candle_time, current_candle_time)
                            THEN /\ last_candle_time' = current_candle_time
                                 /\ evaluated' = LatestCandle(klines)
                                 /\ IF should_buy(klines)
                                    THEN /\ pc' = "buy_balance"
                                         /\ signal' = "buy"
                                    ELSE /\ pc' = "watchdog"
                                         /\ signal' = "hold"
                            ELSE /\ pc' = "watchdog"
                                 /\ UNCHANGED <<last_candle_time, evaluated, signal>>
    /\ UNCHANGED result

\* buy signal: get_balance("USDC")
BuyBalance ==
    /\ pc = "buy_balance"
    /\ \/ ErrorHandler("none")
       \/ /\ balance' = usdc
          /\ pc' = IF usdc > 0 THEN "buy_price" ELSE "watchdog"
          /\ sent' = "none"
          /\ telegram' = "none"
          /\ NoSave
          /\ UNCHANGED <<state, holding, buy_price, peak_price,
                         last_candle_time, evaluated, inactive, watchdog_alert_sent,
                         current_price, order, signal, sol, usdc>>
    /\ UNCHANGED result

\* buy signal: get_current_price before the order
BuyPrice ==
    /\ pc = "buy_price"
    /\ \/ ErrorHandler("none")
       \/ /\ current_price' \in Prices
          /\ pc' = "buy_order"
          /\ sent' = "none"
          /\ telegram' = "none"
          /\ NoSave
          /\ UNCHANGED <<state, holding, buy_price, peak_price,
                         last_candle_time, evaluated, inactive, watchdog_alert_sent,
                         order, signal, balance, sol, usdc>>
    /\ UNCHANGED result

\* buy signal: market_buy_all_usdc
BuyOrder ==
    /\ pc = "buy_order"
    /\ \E out \in {market_buy_all_usdc(c, usdc) : c \in BuyCalls} :
          \/ /\ out.result = "raise"
             /\ ErrorHandler(IF out.submitted THEN "BUY" ELSE "none")
          \/ /\ out.result = "None"
             /\ pc' = "watchdog"
             /\ sent' = "none"
             /\ telegram' = "none"
             /\ NoSave
             /\ UNCHANGED <<state, holding, buy_price, peak_price,
                            last_candle_time, evaluated, inactive, watchdog_alert_sent,
                            current_price, order, signal, balance, sol, usdc>>
          \/ /\ out.result = "order"
             /\ \E fills \in Fills :
                   /\ order' = Order(fills)
                   /\ sol' = Min(MaxSol, sol + TotalQty(fills))
             /\ usdc' = usdc - out.amount
             /\ pc' = AfterOrder("buy")
             /\ sent' = "BUY"
             /\ telegram' = "none"
             /\ NoSave
             /\ UNCHANGED <<state, holding, buy_price, peak_price,
                            last_candle_time, evaluated, inactive, watchdog_alert_sent,
                            current_price, signal, balance>>
    /\ UNCHANGED result

BuyCommit_SaveRaises ==
    /\ pc = "buy_commit"
    /\ LET actual_buy_price == ExecutionPrice(order.fills, current_price)
       IN  /\ holding' = TRUE
           /\ buy_price' = actual_buy_price
           /\ peak_price' = actual_buy_price
    /\ state' = [state EXCEPT !.holding = holding', !.buy_price = buy_price',
                              !.peak_price = peak_price']
    /\ save_state(state')
    /\ telegram' = IF disk' = state' THEN "none" ELSE "error"
    /\ sent' = "none"
    /\ pc' = IF disk' = state' THEN "buy_notify" ELSE "loop"
    /\ current_price' = 0
    /\ UNCHANGED <<last_candle_time, evaluated, inactive, watchdog_alert_sent, order,
                   signal, balance, sol, usdc>>
    /\ UNCHANGED result

\* the buy order returned: execution price, state update, save
BuyCommit ==
    /\ pc = "buy_commit"
    /\ LET actual_buy_price == ExecutionPrice(order.fills, current_price)
       IN  /\ holding' = TRUE
           /\ buy_price' = actual_buy_price
           /\ peak_price' = actual_buy_price
    /\ state' = [state EXCEPT !.holding = holding', !.buy_price = buy_price',
                              !.peak_price = peak_price']
    /\ save_state(state')
    /\ telegram' = "none"
    /\ sent' = "none"
    /\ pc' = "buy_notify"
    /\ current_price' = 0      \* the pre-order price is not read again
    /\ UNCHANGED <<last_candle_time, evaluated, inactive, watchdog_alert_sent, order,
                   signal, balance, sol, usdc>>
    /\ UNCHANGED result

PeakUpdate_SavesOldPeak(p) ==
    /\ peak_price' = p
    /\ UNCHANGED state
    /\ save_state(state')

PeakUpdate_NoSave(p) ==
    /\ peak_price' = p
    /\ state' = [state EXCEPT !.peak_price = p]
    /\ NoSave

\* the peak update and its save
PeakUpdate(p) ==
    /\ peak_price' = p
    /\ state' = [state EXCEPT !.peak_price = p]
    /\ save_state(state')

\* holding: get_current_price and the peak update
OpenPrice ==
    /\ pc = "loop"
    /\ holding
    /\ \/ ErrorHandler("none")
       \/ /\ \E p \in Prices :
                /\ current_price' = p
                /\ IF UpdatesPeak(p, peak_price)
                   THEN PeakUpdate(p)
                   ELSE /\ NoSave
                        /\ UNCHANGED <<peak_price, state>>
          /\ pc' = "exit_check"
          /\ inactive' = 0
          /\ watchdog_alert_sent' = LatchAfterFetch
          /\ sent' = "none"
          /\ telegram' = "none"
          /\ UNCHANGED <<holding, buy_price, last_candle_time, evaluated, order, signal,
                         balance, sol, usdc>>
    /\ UNCHANGED result

\* holding: should_sell on the price observed and the peak as updated
ExitCheck ==
    /\ pc = "exit_check"
    /\ IF should_sell(current_price, buy_price, peak_price)[1]
       THEN /\ pc' = "sell_balance"
            /\ signal' = "sell"
       ELSE /\ pc' = "watchdog"
            /\ UNCHANGED signal
    /\ sent' = "none"
    /\ telegram' = "none"
    /\ NoSave
    /\ UNCHANGED <<state, holding, buy_price, peak_price, last_candle_time, evaluated,
                   inactive, watchdog_alert_sent, current_price, order,
                   balance, sol, usdc>>
    /\ UNCHANGED result

ResetPosition_KeepsPeak ==
    /\ holding' = FALSE
    /\ buy_price' = 0
    /\ UNCHANGED peak_price
    /\ state' = [state EXCEPT !.holding = FALSE, !.buy_price = 0]
    /\ save_state(state')

\* the reset of the position and its save
ResetPosition ==
    /\ holding' = FALSE
    /\ buy_price' = 0
    /\ peak_price' = 0
    /\ state' = [state EXCEPT !.holding = FALSE, !.buy_price = 0,
                              !.peak_price = 0]
    /\ save_state(state')

\* sell signal: get_balance("SOL"); a zero balance is a desync
SellBalance ==
    /\ pc = "sell_balance"
    /\ \/ ErrorHandler("none")
       \/ /\ SolToSell(sol)
          /\ balance' = sol
          /\ pc' = "sell_order"
          /\ sent' = "none"
          /\ telegram' = "none"
          /\ NoSave
          /\ UNCHANGED <<state, holding, buy_price, peak_price,
                         last_candle_time, evaluated, inactive, watchdog_alert_sent,
                         current_price, order, signal, sol, usdc>>
       \/ /\ ~SolToSell(sol)
          /\ balance' = sol
          /\ ResetPosition
          /\ pc' = "watchdog"
          /\ sent' = "none"
          /\ telegram' = "none"
          /\ UNCHANGED <<last_candle_time, evaluated, inactive, watchdog_alert_sent,
                         current_price, order, signal, sol, usdc>>
    /\ UNCHANGED result

\* sell signal: market_sell_all_sol
SellOrder ==
    /\ pc = "sell_order"
    /\ \E out \in {market_sell_all_sol(c, sol) : c \in SellCalls} :
          \/ /\ out.result = "raise"
             /\ ErrorHandler(IF out.submitted THEN "SELL" ELSE "none")
          \/ /\ out.result = "None"
             /\ pc' = "watchdog"
             /\ sent' = "none"
             /\ telegram' = "none"
             /\ NoSave
             /\ UNCHANGED <<state, holding, buy_price, peak_price,
                            last_candle_time, evaluated, inactive, watchdog_alert_sent,
                            current_price, order, signal, balance, sol, usdc>>
          \/ /\ out.result = "order"
             /\ \E fills \in SellFills : order' = Order(fills)
             /\ sol' = sol - out.amount
             /\ usdc' \in {u \in UsdcLevels : u >= usdc}
             /\ pc' = AfterOrder("sell")
             /\ sent' = "SELL"
             /\ telegram' = "none"
             /\ NoSave
             /\ UNCHANGED <<state, holding, buy_price, peak_price,
                            last_candle_time, evaluated, inactive, watchdog_alert_sent,
                            current_price, signal, balance>>
    /\ UNCHANGED result

\* the sell order returned: state reset, save
SellCommit ==
    /\ pc = "sell_commit"
    /\ ResetPosition
    /\ telegram' = "none"
    /\ sent' = "none"
    /\ pc' = "sell_notify"
    /\ UNCHANGED <<last_candle_time, evaluated, inactive, watchdog_alert_sent,
                   current_price, order, signal, balance, sol, usdc>>
    /\ UNCHANGED result

\* the watchdog check and the sleep that end an iteration
Watchdog ==
    /\ pc = "watchdog"
    /\ \E spent \in IterationTimes :
          LET minutes_inactive == Elapsed(inactive, spent)
          IN  /\ IF minutes_inactive >= WATCHDOG_MINUTES /\ ~watchdog_alert_sent
                 THEN /\ telegram' = "watchdog"
                      /\ watchdog_alert_sent' = TRUE
                 ELSE /\ telegram' = "none"
                      /\ UNCHANGED watchdog_alert_sent
              /\ \E d \in Delays : inactive' = Elapsed(minutes_inactive, d)
    /\ EndIteration
    /\ pc' = "loop"
    /\ sent' = "none"
    /\ NoSave
    /\ UNCHANGED <<state, holding, buy_price, peak_price, last_candle_time, evaluated,
                   sol, usdc>>
    /\ UNCHANGED result

\* the process ends: KeyboardInterrupt (break) or a kill; its memory is gone
Stop ==
    /\ pc # "stopped"
    /\ pc' = "stopped"
    /\ state' = EmptySnapshot
    /\ holding' = FALSE
    /\ buy_price' = 0
    /\ peak_price' = 0
    /\ last_candle_time' = 0
    /\ evaluated' = "none"
    /\ inactive' = 0
    /\ watchdog_alert_sent' = FALSE
    /\ current_price' = 0
    /\ order' = None
    /\ signal' = "none"
    /\ balance' = Unread
    /\ sent' = "none"
    /\ telegram' = "none"
    /\ NoSave
    /\ UNCHANGED <<sol, usdc>>
    /\ UNCHANGED result

\* the operator starts the bot again
Restart ==
    /\ pc = "stopped"
    /\ pc' = "boot"
    /\ UNCHANGED <<disk, state, holding, buy_price, peak_price,
                   last_candle_time, evaluated, inactive, watchdog_alert_sent,
                   current_price, order, signal, balance, sol, usdc, sent,
                   telegram, saved>>
    /\ UNCHANGED result

Next ==
    \/ Start
    \/ StartupCheck
    \/ StartupSell
    \/ StartupNotify
    \/ InitTradingState
    \/ FlatFetch
    \/ BuyBalance
    \/ BuyPrice
    \/ BuyOrder
    \/ BuyCommit
    \/ BuyNotify
    \/ OpenPrice
    \/ ExitCheck
    \/ SellBalance
    \/ SellOrder
    \/ SellCommit
    \/ SellNotify
    \/ Watchdog
    \/ Stop
    \/ Restart

Spec == Init /\ [][Next]_vars

\* a call of should_sell(current_price, buy_price, peak_price) on its own,
\* with any three prices; one call per behaviour
CallShouldSell ==
    /\ result = NoCall
    /\ \E current \in SellPrices, buy \in SellPrices, peak \in SellPrices :
          result' = [fn |-> "should_sell",
                     args |-> <<current, buy, peak>>,
                     value |-> should_sell(current, buy, peak)]
    /\ UNCHANGED <<disk, pc, state, holding, buy_price, peak_price,
                   last_candle_time, evaluated, inactive, watchdog_alert_sent,
                   current_price, order, signal, balance, sol, usdc, sent,
                   telegram, saved>>

SpecShouldSell == Init /\ [][CallShouldSell]_vars

\* a call of should_buy(candles) on its own; one call per behaviour
CallShouldBuy ==
    /\ result = NoCall
    /\ \E candles \in BuyWindows :
          result' = [fn |-> "should_buy",
                     args |-> candles,
                     value |-> should_buy(candles)]
    /\ UNCHANGED <<disk, pc, state, holding, buy_price, peak_price,
                   last_candle_time, evaluated, inactive, watchdog_alert_sent,
                   current_price, order, signal, balance, sol, usdc, sent,
                   telegram, saved>>

SpecShouldBuy == Init /\ [][CallShouldBuy]_vars

\* SOL balances and quantities of the calls below, in half steps: up to
\* 0.09 SOL
Quantities == 0..180

\* USDC balances of the calls below, in cents: up to 11 USDC
QuoteBalances == 1..1100

\* exchange answers in which every request of the call succeeds
Answered(calls) ==
    {c \in calls : /\ c.balance = "ok" /\ c.info = "ok" /\ c.price = "ok"
                   /\ c.attempts = [i \in 1..max_retries |-> "ok"]}

\* a call of sanitize_quantity on its own
CallSanitize ==
    /\ result = NoCall
    /\ \E qty \in Quantities :
          result' = [fn |-> "sanitize_quantity",
                     args |-> <<qty>>,
                     value |-> sanitize_quantity(qty)]
    /\ UNCHANGED <<disk, pc, state, holding, buy_price, peak_price,
                   last_candle_time, evaluated, inactive,
                   watchdog_alert_sent, current_price, order, signal,
                   balance, sol, usdc, sent, telegram, saved>>

\* a call of market_sell_all_sol on its own, on any positive balance
CallSellAll ==
    /\ result = NoCall
    /\ \E b \in Quantities \ {0}, call \in Answered(SellCalls) :
          result' = [fn |-> "market_sell_all_sol",
                     args |-> <<b, call.step_size>>,
                     value |-> market_sell_all_sol(call, b)]
    /\ UNCHANGED <<disk, pc, state, holding, buy_price, peak_price,
                   last_candle_time, evaluated, inactive,
                   watchdog_alert_sent, current_price, order, signal,
                   balance, sol, usdc, sent, telegram, saved>>

\* a call of market_buy_all_usdc on its own, on any positive balance; the
\* value keeps the quoteOrderQty of the order next to the outcome
CallBuyAll ==
    /\ result = NoCall
    /\ \E b \in QuoteBalances, call \in Answered(BuyCalls) :
          result' = [fn |-> "market_buy_all_usdc",
                     args |-> <<b, call.quote_precision>>,
                     value |-> [out |-> market_buy_all_usdc(call, b),
                                quoteOrderQty |->
                                    usdc_to_use(b, call.quote_precision)]]
    /\ UNCHANGED <<disk, pc, state, holding, buy_price, peak_price,
                   last_candle_time, evaluated, inactive,
                   watchdog_alert_sent, current_price, order, signal,
                   balance, sol, usdc, sent, telegram, saved>>

NextQuantities ==
    \/ CallSanitize
    \/ CallSellAll
    \/ CallBuyAll

SpecQuantities == Init /\ [][NextQuantities]_vars

\* one run of the retry loop of get_klines, market_buy, market_sell or
\* market_buy_all_usdc on its own, against any three answers of the exchange
CallRetry ==
    /\ result = NoCall
    /\ \E attempts \in Attempts :
          result' = [fn |-> "retry",
                     args |-> attempts,
                     value |-> [outcome |-> Retry(attempts, 1),
                                made |-> AttemptsMade(attempts, 1)]]
    /\ UNCHANGED <<disk, pc, state, holding, buy_price, peak_price,
                   last_candle_time, evaluated, inactive,
                   watchdog_alert_sent, current_price, order, signal,
                   balance, sol, usdc, sent, telegram, saved>>

SpecRetry == Init /\ [][CallRetry]_vars

\* a step of a run in which no call of the loop raises, the process is not
\* stopped and every price observed for an open position is at or below its
\* stop-loss level: buy_price * (1 - MAX_LOSS_PERCENT)
CalmStep ==
    /\ telegram' # "error"
    /\ pc' # "stopped"
    /\ (pc = "loop" /\ holding /\ pc' = "exit_check") =>
          (current_price' - buy_price) * 1000 <= -(MAX_LOSS_PER_MILLE * buy_price)

\* such runs, with the loop never ceasing to take its next step: every step
\* of "while True" ends (requests time out, sleeps are finite)
SpecCalmFair ==
    Init /\ [][Next /\ CalmStep]_vars /\ WF_vars(Next /\ CalmStep)

----------------------------------------------------------------------------
(* Claims about the position state machine of main_loop *)

InLoop == pc \in LoopPcs /\ pc' \in LoopPcs

Opens == InLoop /\ ~holding /\ holding'

Closes == InLoop /\ holding /\ ~holding'

\* the conditions C1 names for a change of the holding flag
OpenConditions == signal = "buy" /\ balance > 0 /\ order.returned

CloseConditions == signal = "sell" /\ (order.returned \/ balance' = 0)

\* a step of an iteration that meets neither
OtherStep == InLoop /\ ~OpenConditions /\ ~CloseConditions

\* C1 as stated: holding rises only on a buy signal with a positive USDC
\* balance and a returned buy order, falls only on a sell signal with a
\* returned sell order or a zero SOL balance, and in every other iteration
\* holding, buy_price and the persisted holding are unchanged.
C1_Original ==
    [][ /\ Opens => OpenConditions
        /\ Closes => CloseConditions
        /\ OtherStep => /\ holding' = holding
                        /\ buy_price' = buy_price
                        /\ disk'.holding = disk.holding
    ]_vars

\* C1 amended: as C1, but in every other iteration the persisted holding may
\* still change when a peak-update save_state rewrites a file that an
\* earlier failed save left out of date, or fails itself and blanks the file;
\* the holding of the in-memory snapshot is unchanged.
C1_HoldingChanges ==
    [][ /\ Opens => OpenConditions
        /\ Closes => CloseConditions
        /\ OtherStep => /\ holding' = holding
                        /\ buy_price' = buy_price
                        /\ state'.holding = state.holding
                        /\ disk'.holding # disk.holding =>
                              /\ saved' = {state'}
                              /\ \/ disk.holding # state.holding
                                 \/ disk' = EmptySnapshot
    ]_vars

\* a buy has just opened the position and the snapshot on disk says so
C1_Witness ==
    /\ pc = "watchdog"
    /\ holding
    /\ OpenConditions
    /\ telegram = "buy"
    /\ disk.holding

\* a filled buy of this run that no filled sell or desync reset has followed
PositionOpen == holding \/ pc = "buy_commit"

\* C2: a buy order is submitted only while holding is false, a filled buy
\* opens the position, and an open position ends only by a filled sell or a
\* desync reset (or the end of the process): no second buy fills in between.
C2_OnePosition ==
    [][ /\ sent' = "BUY" => ~PositionOpen /\ pc = "buy_order"
        /\ pc = "buy_order" /\ pc' = "buy_commit" => PositionOpen' /\ order'.returned
        /\ PositionOpen /\ ~PositionOpen' /\ pc' # "stopped" =>
              \/ pc = "sell_commit" /\ order.returned
              \/ pc = "sell_balance" /\ balance' = 0
    ]_vars

\* the exchange has just filled a buy submitted while flat
C2_Witness ==
    /\ pc = "buy_commit"
    /\ sent = "BUY"
    /\ order.returned
    /\ ~holding

\* C3: in the loop, holding implies buy_price > 0 and peak_price >= buy_price;
\* not holding implies buy_price = 0 and peak_price = 0.
C3_PositionInvariant ==
    pc \in LoopPcs =>
        /\ holding => buy_price > 0 /\ peak_price >= buy_price
        /\ ~holding => buy_price = 0 /\ peak_price = 0

\* an open position whose peak has risen above the entry
C3_Witness ==
    /\ pc \in LoopPcs
    /\ holding
    /\ peak_price > buy_price

\* C4: the buy commit sets buy_price and peak_price to the same value, the
\* quantity-weighted average of the order's fills; the price observed before
\* the order is used when the order has no fills.
C4_EntryPrice ==
    [][ pc = "buy_commit" /\ holding' =>
          /\ buy_price' = peak_price'
          /\ order.fills # <<>> =>
                buy_price' * TotalQty(order.fills) = TotalCost(order.fills)
          /\ order.fills = <<>> => buy_price' = current_price
    ]_vars

\* a position opened by two fills of different price and quantity
C4_Witness ==
    /\ pc = "watchdog"
    /\ telegram = "buy"
    /\ Len(order.fills) = 2
    /\ order.fills[1].price # order.fills[2].price
    /\ order.fills[1].qty # order.fills[2].qty
    /\ buy_price * TotalQty(order.fills) = TotalCost(order.fills)
    /\ peak_price = buy_price

\* the step of an open iteration that observes the price
Observes == pc = "loop" /\ holding /\ pc' = "exit_check"

\* C5: while the position stays open peak_price never decreases, after an
\* observation it is max(previous peak, observed price), and observing the
\* price of the previous observation again leaves it unchanged.
C5_PeakMonotone ==
    [][ /\ InLoop /\ holding /\ holding' => peak_price' >= peak_price
        /\ Observes => peak_price' = Max(peak_price, current_price')
        /\ Observes /\ current_price' = current_price =>
              peak_price' = peak_price
    ]_vars

\* the peak rose above the entry and a lower price was observed after it
C5_Witness ==
    /\ holding
    /\ pc = "watchdog"
    /\ peak_price > buy_price
    /\ current_price # 0
    /\ current_price < peak_price

\* C6: on an exit signal with a SOL balance of 0 the loop submits no sell
\* order, resets holding, buy_price and peak_price, and passes the reset
\* snapshot to save_state; a sell order is submitted only after a positive
\* balance was read.
C6_Desync ==
    [][ /\ pc = "sell_balance" /\ holding /\ balance' = 0 =>
              /\ signal = "sell"
              /\ sent' = "none"
              /\ pc' = "watchdog"
              /\ ~holding' /\ buy_price' = 0 /\ peak_price' = 0
              /\ ~state'.holding /\ state'.buy_price = 0 /\ state'.peak_price = 0
              /\ saved' = {state'}
              /\ disk' \in {state', disk, EmptySnapshot}
        /\ InLoop /\ sent' = "SELL" => pc = "sell_order" /\ balance > 0
    ]_vars

\* the desync reset has just happened
C6_Witness ==
    /\ pc = "watchdog"
    /\ signal = "sell"
    /\ balance = 0
    /\ ~holding
    /\ disk = state
    /\ saved = {state}

AttemptPcs == {"buy_balance", "buy_price", "buy_order", "sell_balance", "sell_order"}

\* C7: a fault raised in a buy or sell attempt leaves holding, buy_price,
\* peak_price, the in-memory snapshot and the file as they were, and the next
\* iteration starts from them.
C7_FaultFrame ==
    [][ (pc \in AttemptPcs /\ telegram' = "error") =>
          /\ UNCHANGED <<holding, buy_price, peak_price, state, disk>>
          /\ saved' = {}
          /\ pc' = "loop"
    ]_vars

\* a sell order was submitted for an open position and raised
C7_Witness ==
    /\ pc = "loop"
    /\ telegram = "error"
    /\ sent = "SELL"
    /\ holding

\* C8: a fault in an iteration is followed by the error notification and the
\* top of the loop, where an iteration is enabled; the loop is left only by
\* the end of the process, never by a fault.
C8_LoopSurvives ==
    /\ [](pc = "loop" => ENABLED (FlatFetch \/ OpenPrice))
    /\ [][ /\ telegram' = "error" => pc \in LoopPcs /\ pc' = "loop"
           /\ pc \in LoopPcs /\ pc' \notin LoopPcs =>
                 pc' = "stopped" /\ telegram' = "none"
         ]_vars

\* a market-data fault in a flat iteration was reported and the loop goes on
C8_Witness ==
    /\ pc = "loop"
    /\ telegram = "error"
    /\ sent = "none"
    /\ ~holding

EntersLoop == pc = "init" /\ pc' = "loop"

\* C9 as stated: the loop is never entered with the completion flag unset
\* and a base balance still unsold.
C9_Original ==
    [][ EntersLoop => state.FIRST_RUN_SELL_DONE \/ sol = 0
    ]_vars

\* C9 amended: with the flag unset and a nonzero balance read, the startup
\* step calls the sell before the loop; when the sell returns an order the
\* balance is sold and the flag set; the loop is entered with the flag unset
\* and a balance unsold only when no startup order was returned (the balance
\* query raised, the sell raised or the sell returned None).
C9_StartupSell ==
    [][ /\ pc = "startup" /\ ~state.FIRST_RUN_SELL_DONE /\ balance' > 0 =>
              pc' = "startup_sell"
        /\ pc = "startup_sell" /\ order'.returned =>
              /\ sent' = "SELL"
              /\ sol' < sol
              /\ state'.FIRST_RUN_SELL_DONE
        /\ pc' = "loop" /\ pc \notin LoopPcs => pc = "init"
        /\ pc' = "init" => pc \in {"startup", "startup_sell", "startup_notify"}
        /\ EntersLoop /\ ~state.FIRST_RUN_SELL_DONE /\ sol > 0 =>
              ~order.returned
    ]_vars

\* the startup sell returned an order and the loop is about to start
C9_Witness ==
    /\ pc = "init"
    /\ order.returned
    /\ telegram = "startup_sell"
    /\ state.FIRST_RUN_SELL_DONE

StartupPcs == {"startup", "startup_sell", "startup_notify"}

\* C10: FIRST_RUN_SELL_DONE becomes true in memory only when the startup sell
\* returned an order or the balance read was zero, and becomes true on disk
\* only by a save of a snapshot that has it; a startup step that does not set
\* it leaves the snapshot in memory and the file as they were.
C10_FlagOnlyOnSuccess ==
    [][ /\ pc \in StartupPcs /\ ~state.FIRST_RUN_SELL_DONE
           /\ state'.FIRST_RUN_SELL_DONE =>
              \/ pc = "startup_sell" /\ order'.returned /\ sent' = "SELL"
              \/ pc = "startup" /\ balance' = 0
        /\ pc # "boot" /\ pc' # "stopped"
           /\ state'.FIRST_RUN_SELL_DONE # state.FIRST_RUN_SELL_DONE =>
              pc \in StartupPcs
        /\ ~disk.FIRST_RUN_SELL_DONE /\ disk'.FIRST_RUN_SELL_DONE =>
              state'.FIRST_RUN_SELL_DONE /\ saved' = {state'}
        /\ pc \in StartupPcs /\ pc' # "stopped"
           /\ ~state'.FIRST_RUN_SELL_DONE =>
              UNCHANGED <<state, disk>>
    ]_vars

\* the flag was set and saved because the balance read was zero
C10_Witness ==
    /\ pc = "init"
    /\ balance = 0
    /\ ~order.returned
    /\ state.FIRST_RUN_SELL_DONE
    /\ disk.FIRST_RUN_SELL_DONE

\* C11: a startup whose loaded snapshot has FIRST_RUN_SELL_DONE true goes
\* to the loop without calling the sell: no sell order is submitted before
\* the loop and the SOL balance is what it was.
C11_NoSecondStartupSell ==
    [][ /\ (pc = "startup" /\ state.FIRST_RUN_SELL_DONE /\ pc' # "stopped") =>
              /\ pc' = "init"
              /\ sent' = "none"
              /\ UNCHANGED <<sol, state, disk>>
        /\ (pc' = "startup_sell") => ~state.FIRST_RUN_SELL_DONE
        /\ (sent' = "SELL" /\ pc \notin LoopPcs) =>
              pc = "startup_sell" /\ ~state.FIRST_RUN_SELL_DONE
    ]_vars

\* a startup with the flag set and SOL on the account reached the loop
\* without a balance query or an order
C11_Witness ==
    /\ pc = "init"
    /\ state.FIRST_RUN_SELL_DONE
    /\ sol > 0
    /\ balance = Unread
    /\ sent = "none"
    /\ ~order.returned

\* the step of a flat iteration in which should_buy is evaluated
EvaluatesEntry == pc = "loop" /\ ~holding /\ signal' \in {"buy", "hold"}

\* C12: while flat, should_buy is evaluated only on a window whose latest
\* open time differs from last_candle_time, the open time of the last window
\* evaluated, and makes it the new last_candle_time; the loop changes
\* last_candle_time in no other step, holding or not, so a run of fetches
\* with the same latest open time has at most one evaluation.
C12_OncePerCandle ==
    [][ /\ EvaluatesEntry =>
              /\ last_candle_time' # last_candle_time
              /\ last_candle_time' \in CandleTimes
        /\ (InLoop /\ last_candle_time' # last_candle_time) => EvaluatesEntry
        /\ (InLoop /\ signal' \in {"buy", "hold"} /\ signal' # signal) =>
              EvaluatesEntry
    ]_vars

\* a flat iteration fetched a window already evaluated and skipped the rule
C12_Witness ==
    /\ pc = "watchdog"
    /\ ~holding
    /\ signal = "none"
    /\ last_candle_time # 0
    /\ inactive = 0

\* a step in which the market-data fetch of an iteration succeeds
FetchSucceeds == pc = "loop" /\ pc' \in LoopPcs /\ telegram' # "error"

\* C13: a watchdog alert is sent only with the latch clear and sets it, the
\* latch is cleared only by a successful fetch, and it is false right after
\* every successful fetch: between two successful fetches there is at most
\* one alert.
C13_OneAlertPerOutage ==
    [][ /\ (telegram' = "watchdog") =>
              /\ pc = "watchdog"
              /\ ~watchdog_alert_sent
              /\ watchdog_alert_sent'
        /\ (InLoop /\ watchdog_alert_sent /\ ~watchdog_alert_sent') =>
              FetchSucceeds
        /\ FetchSucceeds => ~watchdog_alert_sent'
    ]_vars

\* an alert was sent and latched, and no fetch has succeeded since
C13_Witness ==
    /\ pc = "loop"
    /\ telegram = "watchdog"
    /\ watchdog_alert_sent
    /\ inactive >= WATCHDOG_MINUTES

\* C14 as stated: every iteration ends through the watchdog comparison, also
\* one whose fetch failed, so that the loop is never back at its top with the
\* threshold passed and no alert sent.
C14_Original ==
    [][ (InLoop /\ pc' = "loop") =>
          /\ pc = "watchdog"
          /\ inactive' >= WATCHDOG_MINUTES => watchdog_alert_sent'
    ]_vars

\* the persistence works in a step: a save leaves its snapshot in the file,
\* the load at startup reads the file
PersistenceOk ==
    /\ saved' # {} => disk' \in saved'
    /\ (pc = "boot" /\ pc' = "startup") => state' = disk

\* the program with working persistence
SpecPersistenceOk == Init /\ [][Next /\ PersistenceOk]_vars

Position == <<holding, buy_price, peak_price>>

Snapshot(s) == <<s.holding, s.buy_price, s.peak_price>>

\* C15: with working persistence, the file holds the in-memory holding,
\* buy_price and peak_price at the end of every iteration, and every step of
\* the loop that changes one of them saves a snapshot that carries them.
C15_SnapshotInSync ==
    /\ [](pc \in {"loop", "watchdog"} => Snapshot(disk) = Position)
    /\ [][ (InLoop /\ Position' # Position) =>
              /\ saved' = {state'}
              /\ Snapshot(state') = Position'
              /\ disk' = state' ]_vars

\* an open position whose raised peak is in the file at the end of an
\* iteration
C15_Witness ==
    /\ pc = "loop"
    /\ holding
    /\ peak_price > buy_price
    /\ Snapshot(disk) = Position

\* C16: an open iteration whose observed price raises the peak passes the
\* snapshot with the new peak_price to save_state in the step before the one
\* that evaluates should_sell, and should_sell is evaluated on that peak.
C16_PeakSavedBeforeExit ==
    /\ [](pc = "exit_check" /\ saved # {} =>
              /\ saved = {state}
              /\ state.peak_price = peak_price
              /\ peak_price = current_price)
    /\ [][ /\ (pc = "loop" /\ holding /\ peak_price' > peak_price) =>
                 /\ pc' = "exit_check"
                 /\ saved' = {state'}
                 /\ disk' \in {state', disk, EmptySnapshot}
           /\ (InLoop /\ signal' = "sell" /\ signal # "sell") =>
                 /\ pc = "exit_check"
                 /\ should_sell(current_price, buy_price, peak_price)[1]
                 /\ UNCHANGED <<peak_price, disk>>
           /\ (pc = "exit_check" /\ pc' = "watchdog") =>
                 /\ ~should_sell(current_price, buy_price, peak_price)[1]
                 /\ UNCHANGED <<peak_price, disk>> ]_vars

\* the observed price has raised the peak, the snapshot with the new peak is
\* in the file, and should_sell has not been evaluated yet
C16_Witness ==
    /\ pc = "exit_check"
    /\ peak_price > buy_price
    /\ peak_price = current_price
    /\ saved = {state}
    /\ disk.peak_price = peak_price

\* a step whose save_state fails: the file does not hold the snapshot passed
FailedSave == saved' # {} /\ disk' \notin saved'

\* C17: a step whose save_state fails ends where it ends on success: the
\* snapshot in memory is the one passed to save_state and carries the
\* position just assigned, the notification of the step is sent, no error is
\* reported, the iteration goes on to its next step, and the loop stays
\* enabled while the file and the memory differ.
C17_SaveFailureIsSilent ==
    /\ [](pc = "loop" /\ Snapshot(disk) # Position =>
              ENABLED (FlatFetch \/ OpenPrice))
    /\ [][ FailedSave =>
              /\ saved' = {state'}
              /\ telegram' # "error"
              /\ pc \in LoopPcs => Snapshot(state') = Position'
              /\ pc = "buy_commit" => holding' /\ pc' = "buy_notify"
              /\ pc = "sell_commit" => ~holding' /\ pc' = "sell_notify"
              /\ pc = "sell_balance" => ~holding' /\ pc' = "watchdog"
              /\ pc = "loop" =>
                    peak_price' = current_price' /\ pc' = "exit_check"
              /\ pc = "startup_sell" =>
                    state'.FIRST_RUN_SELL_DONE /\ pc' = "startup_notify"
              /\ pc = "startup" =>
                    state'.FIRST_RUN_SELL_DONE /\ pc' = "init" ]_vars

\* the save of a buy commit failed: the position is open in memory, the
\* notification went out and the iteration is at its watchdog check
C17_Witness ==
    /\ pc = "watchdog"
    /\ holding
    /\ signal = "buy"
    /\ telegram = "buy"
    /\ ~disk.holding

NotifyPcs == {"buy_notify", "sell_notify", "startup_notify"}

TradeNotes == Notified("buy") \cup Notified("sell") \cup Notified("startup_sell")

\* C18: the notification of a buy, a sell or a startup sell is attempted
\* only in the step after the state update and its save_state, and however
\* it ends (sent, not sent, raised) the position, the snapshot in memory and
\* the file are left as they were and the run goes on to the same step.
C18_NotificationIsLast ==
    /\ [](pc = "buy_notify" =>
             holding /\ Snapshot(state) = Position /\ saved = {state})
    /\ [](pc = "sell_notify" =>
             ~holding /\ Snapshot(state) = Position /\ saved = {state})
    /\ [](pc = "startup_notify" =>
             state.FIRST_RUN_SELL_DONE /\ saved = {state})
    /\ [][ /\ (telegram' \in TradeNotes) =>
                 /\ pc \in NotifyPcs
                 /\ telegram' \in Notified(
                       IF pc = "buy_notify" THEN "buy"
                       ELSE IF pc = "sell_notify" THEN "sell"
                       ELSE "startup_sell")
                 /\ pc' = IF pc = "startup_notify" THEN "init" ELSE "watchdog"
                 /\ UNCHANGED <<holding, buy_price, peak_price, state, disk,
                                sol, usdc>>
           /\ (pc \in NotifyPcs /\ pc' # "stopped") => telegram' \in TradeNotes
       ]_vars

\* the notification of a sell raised; the position is closed and saved
C18_Witness ==
    /\ pc = "watchdog"
    /\ telegram = "sell_raised"
    /\ ~holding
    /\ signal = "sell"
    /\ disk = state

AfterFill == pc \in LoopPcs /\ PositionOpen /\ pc # "buy_commit"

----------------------------------------------------------------------------
(* Claims about should_sell *)

\* the stop-loss condition of the claim, in exact arithmetic:
\* entry > 0 and current <= entry * (1 - 0.005)
AtStopLoss(current, entry) ==
    entry > 0 /\ current * 1000 <= entry * (1000 - MAX_LOSS_PER_MILLE)

\* the trailing condition: peak above entry and current at least 0.2% below
\* the peak
AtTrailingStop(current, entry, peak) ==
    peak > entry /\ (peak - current) * 1000 >= TRAILING_PER_MILLE * peak

\* C20: for every (current, entry, peak) with entry > 0 and
\* current <= entry * (1 - max loss fraction), should_sell returns
\* (true, STOP_LOSS) whatever the peak, also when the trailing condition
\* holds for the same triple.
C20_StopLossFirst ==
    (result.fn = "should_sell" /\ AtStopLoss(result.args[1], result.args[2]))
        => result.value = <<TRUE, "STOP_LOSS">>

\* a call where both the stop-loss and the trailing condition hold
C20_Witness ==
    /\ result.fn = "should_sell"
    /\ AtStopLoss(result.args[1], result.args[2])
    /\ AtTrailingStop(result.args[1], result.args[2], result.args[3])
    /\ result.value = <<TRUE, "STOP_LOSS">>

\* the share of the peak profit given back is at least TRAILING_SHARE:
\* peak > entry and (peak - current) / (peak - entry) >= 0.20
GaveBackShare(current, entry, peak) ==
    /\ peak > entry
    /\ (peak - current) * 100 >= TRAILING_SHARE_PERCENT * (peak - entry)

\* C21 as stated: for entry > 0, peak > entry, a given-back share of the
\* peak profit of at least 0.20 and a current profit above the stop-loss
\* floor, should_sell returns true with the trailing reason.
C21_Original ==
    (/\ result.fn = "should_sell"
     /\ result.args[2] > 0
     /\ GaveBackShare(result.args[1], result.args[2], result.args[3])
     /\ ~AtStopLoss(result.args[1], result.args[2]))
        => result.value = <<TRUE, "TRAILING_STOP">>

\* C22 as stated: for entry > 0, a current profit above the stop-loss floor
\* and a given-back share of the peak profit strictly below 0.20,
\* should_sell returns (false, no reason); with entry 100 and peak 110 it
\* holds at 108.01.
C22_Original ==
    (/\ result.fn = "should_sell"
     /\ result.args[2] > 0
     /\ result.args[3] > result.args[2]
     /\ ~GaveBackShare(result.args[1], result.args[2], result.args[3])
     /\ ~AtStopLoss(result.args[1], result.args[2]))
        => result.value = <<FALSE, "">>

\* C23: whenever the entry price is <= 0, should_sell returns
\* (false, no reason), for every current price and peak.
C23_NoEntryNoExit ==
    (result.fn = "should_sell" /\ result.args[2] <= 0)
        => result.value = <<FALSE, "">>

\* a call with entry 0 and a current price at which the stop-loss test,
\* were it made, would divide by zero
C23_Witness ==
    /\ result.fn = "should_sell"
    /\ result.args[2] = 0
    /\ result.args[1] > 0
    /\ result.args[3] > 0
    /\ result.value = <<FALSE, "">>

----------------------------------------------------------------------------
(* Claims about should_buy *)

\* (close - open) / open * 100 of one candle, in ten-thousandths of a percent
Change(candle) == Percent(candle.c - candle.o, candle.o)

\* the call returned True at the two-candle condition
TwoCandleFired ==
    /\ result.fn = "should_buy"
    /\ result.value = TRUE
    /\ calculate_candle_changes(result.args).raises = ""
    /\ TwoCandle(result.args)

\* the call returned True at the four-candle condition
FourCandleFired ==
    /\ result.fn = "should_buy"
    /\ result.value = TRUE
    /\ ~TwoCandleFired

\* C24 as stated: in every window of 3 to 20 candles whose two most recent
\* candles both have a non-positive change (close - open) / open, the
\* two-candle entry rule of should_buy does not fire.
C24_Original ==
    (/\ result.fn = "should_buy"
     /\ Len(result.args) \in 3..20
     /\ \A i \in (Len(result.args) - 1)..Len(result.args) :
            result.args[i].o > 0 /\ result.args[i].c <= result.args[i].o)
        => ~TwoCandleFired

\* the two-candle rule on the two most recent candles: both green, the
\* latest change at least ENTRY_MIN_SECOND, the sum of both at least
\* ENTRY_TOTAL_MOVE
RecentTwoRule(w) ==
    LET n == Len(w)
    IN  /\ \A i \in (n - 1)..n : w[i].o > 0 /\ w[i].c > w[i].o
        /\ Change(w[n]) >= ENTRY_MIN_SECOND
        /\ Change(w[n - 1]) + Change(w[n]) >= ENTRY_TOTAL_MOVE

\* the four-candle rule on the four most recent candles: total change at
\* least 0.8%, at most one red candle, the two most recent not both red
RecentFourRule(w) ==
    LET n == Len(w)
        red(i) == w[i].c < w[i].o
    IN  /\ n >= 4
        /\ \A i \in (n - 3)..n : w[i].o > 0
        /\ Change(w[n - 3]) + Change(w[n - 2]) + Change(w[n - 1])
              + Change(w[n]) >= 8000
        /\ Cardinality({i \in (n - 3)..n : red(i)}) <= 1
        /\ ~(red(n - 1) /\ red(n))

\* C25 as stated: should_buy returns true whenever the two-candle rule holds
\* on the two most recent candles or the four-candle rule holds on the four
\* most recent candles, with no further condition.
C25_Original ==
    (/\ result.fn = "should_buy"
     /\ Len(result.args) \in 3..20
     /\ RecentTwoRule(result.args) \/ RecentFourRule(result.args))
        => result.value = TRUE

\* C26 as stated: should_buy returns true through the four-candle rule only
\* if the four most recent candles have a total change of at least the
\* threshold, at most one red candle and not two red candles at the end.
C26_Original ==
    FourCandleFired => RecentFourRule(result.args)

\* a division of the call has a zero divisor: an open of the last three
\* candles, the close of candles[0] or candles[1], the last close of a
\* window of twenty, or an open of candles[0..3] when the filters pass and
\* the two-candle condition has not returned
DividesByZero(w) ==
    /\ Len(w) >= 3
    /\ \/ \E i \in (Len(w) - 2)..Len(w) : w[i].o = 0
       \/ w[1].c = 0
       \/ w[2].c = 0
       \/ Len(w) >= 20 /\ w[Len(w)].c = 0
       \/ /\ Len(w) >= 4
          /\ \E i \in 1..4 : w[i].o = 0
          /\ VolatilityOk(w)
          /\ TrendOk(w)
          /\ calculate_candle_changes(w).raises = ""
          /\ ~TwoCandle(w)

\* C27: should_buy returns a boolean for every window, False for a window
\* shorter than three candles and False when a division has a zero divisor.
C27_NeverRaises ==
    result.fn = "should_buy" =>
        /\ result.value \in BOOLEAN
        /\ Len(result.args) < 3 => result.value = FALSE
        /\ DividesByZero(result.args) => result.value = FALSE

\* a call whose filters pass and whose two-candle condition divides by the
\* zero close of candles[0]
C27_Witness ==
    /\ result.fn = "should_buy"
    /\ Len(result.args) = 4
    /\ result.args[1].c = 0
    /\ VolatilityOk(result.args)
    /\ result.value = FALSE

----------------------------------------------------------------------------
(* Claims about the candles the loop evaluates *)

\* C28 as stated: every window the loop passes to should_buy ends with a
\* fully closed candle, never with the still-forming candle the exchange
\* returns.
C28_Original ==
    [][ EvaluatesEntry => evaluated' = "closed" ]_vars

----------------------------------------------------------------------------
(* Claims about the quantities of the orders *)

\* the step a sell is truncated to: the LOT_SIZE step of the exchange where
\* it is coarser than the hardcoded one
EffectiveStep(step_size) == Max(step_size, step)

\* C29 as stated: for every balance b > 0 the quantity market_sell_all_sol
\* submits is a multiple of the step, at most b and above b - step; when the
\* truncated quantity is 0 no order is submitted and None is returned;
\* sanitize_quantity is idempotent.
C29_Original ==
    /\ result.fn = "market_sell_all_sol" =>
          LET b == result.args[1]
              s == EffectiveStep(result.args[2])
          IN  /\ result.value.submitted =>
                    /\ result.value.amount % s = 0
                    /\ result.value.amount <= b
                    /\ result.value.amount > b - s
              /\ b < s => result.value = ReturnedNone
    /\ result.fn = "sanitize_quantity" =>
          sanitize_quantity(result.value) = result.value

\* C30 as stated: for every quote balance b > 0 and every precision derived
\* from the notional filter, the quote amount market_buy_all_usdc submits is
\* never greater than b.
C30_Original ==
    (result.fn = "market_buy_all_usdc" /\ result.value.out.submitted)
        => result.value.quoteOrderQty <= result.args[1]

----------------------------------------------------------------------------
(* Claims about the retry loops of exchange.py *)

\* C31: a retry loop sends at most max_retries requests; it sends another
\* one only after a rate limit, raises at the first other fault and after
\* the third rate limit, and returns at the first success, so that at most
\* one of its requests is accepted.
C31_BoundedRetry ==
    result.fn = "retry" =>
        LET attempts == result.args
            made == result.value.made
        IN  /\ made \in 1..max_retries
            /\ \A i \in 1..(made - 1) : attempts[i] = "rate_limit"
            /\ attempts[made] = "ok" <=> result.value.outcome = "ok"
            /\ attempts[made] # "ok" => result.value.outcome = "raise"
            /\ attempts[made] = "rate_limit" => made = max_retries
            /\ Cardinality({i \in 1..made : attempts[i] = "ok"}) <= 1

\* a loop that raised at a fault other than a rate limit although a later
\* request would have succeeded
C31_Witness ==
    /\ result.fn = "retry"
    /\ result.args = <<"rate_limit", "error", "ok">>
    /\ result.value.made = 2
    /\ result.value.outcome = "raise"

----------------------------------------------------------------------------
(* Claims about the start of the loop *)

\* the loop is entered right after a startup sell that returned an order
StartsAfterStartupSell == pc = "init" /\ order.returned /\ pc' = "loop"

\* C32 as stated: whenever the startup step has sold the balance, the loop
\* starts FLAT (not holding, entry and peak price zero), whatever snapshot
\* was loaded.
C32_Original ==
    [][ StartsAfterStartupSell =>
            ~holding' /\ buy_price' = 0 /\ peak_price' = 0
    ]_vars

----------------------------------------------------------------------------
(* Claims about the progress of an exit *)

\* C33 as stated: when the position is open, no exchange call fails and the
\* price stays at or below the stop-loss level, the position eventually
\* becomes FLAT, whatever the SOL balance is (zero, below one step, more).
C33_Original ==
    (/\ pc = "exit_check"
     /\ holding
     /\ AtStopLoss(current_price, buy_price)) ~> ~holding

----------------------------------------------------------------------------
(* Claims about the arguments of should_sell *)

\* C34: at every call of should_sell made by the loop peak_price is at least
\* current_price, so the peak profit is at least the current profit.
C34_PeakAtLeastPrice ==
    pc = "exit_check" =>
        /\ peak_price >= current_price
        /\ peak_price - buy_price >= current_price - buy_price

\* a call with a price below a peak above the entry that was reached
\* earlier (no peak update in this iteration)
C34_Witness ==
    /\ pc = "exit_check"
    /\ holding
    /\ peak_price > buy_price
    /\ current_price < peak_price
    /\ saved = {}

====
